---- MODULE Spec2Model ----
(***************************************************************************)
(* Model of the content acquisition core of ARQV30:                        *)
(*   src/src/services/robust_content_extractor.py  RobustContentExtractor *)
(*                                                                         *)
(* A text is kept run-length encoded: a sequence of runs [c, n], n >= 1    *)
(* copies of a character of class c, where "x" is any non-whitespace       *)
(* character, " " a space and "\n" a line break.  Lengths of 100, 12000 or *)
(* 15000 characters are then ordinary values.                              *)
(***************************************************************************)
EXTENDS Integers, Sequences, FiniteSets, TLC

\* Python's None, as a value comparable with every text (no text has an empty run)
None == <<[c |-> "None", n |-> 0]>>

\* ------------------------------------------------------------------ text

Run(ch, k) == [c |-> ch, n |-> k]
X(k) == <<Run("x", k)>>
SP(k) == <<Run(" ", k)>>
NL(k) == <<Run("\n", k)>>

IsSpace(ch) == ch \in {" ", "\n"}

RECURSIVE Canon(_)
\* canonical form: no empty run, no two adjacent runs of one character
Canon(t) ==
    IF t = <<>> THEN <<>>
    ELSE IF Head(t).n = 0 THEN Canon(Tail(t))
    ELSE LET r == Canon(Tail(t))
         IN  IF r # <<>> /\ Head(r).c = Head(t).c
             THEN <<Run(Head(t).c, Head(t).n + Head(r).n)>> \o Tail(r)
             ELSE <<Head(t)>> \o r

RECURSIVE TLen(_)
\* len(text)
TLen(t) == IF t = <<>> THEN 0 ELSE Head(t).n + TLen(Tail(t))

RECURSIVE Take(_, _)
\* text[:k]
Take(t, k) ==
    IF t = <<>> \/ k <= 0 THEN <<>>
    ELSE IF Head(t).n <= k THEN <<Head(t)>> \o Take(Tail(t), k - Head(t).n)
    ELSE <<Run(Head(t).c, k)>>

RECURSIVE LStrip(_)
LStrip(t) ==
    IF t = <<>> THEN <<>>
    ELSE IF IsSpace(Head(t).c) THEN LStrip(Tail(t)) ELSE t

RECURSIVE RStrip(_)
RStrip(t) ==
    IF t = <<>> THEN <<>>
    ELSE IF IsSpace(t[Len(t)].c) THEN RStrip(SubSeq(t, 1, Len(t) - 1)) ELSE t

\* str.strip()
Strip(t) == RStrip(LStrip(t))

RECURSIVE SpacePrefix(_)
\* number of leading runs of t that are whitespace
SpacePrefix(t) ==
    IF t = <<>> \/ ~IsSpace(Head(t).c) THEN 0 ELSE 1 + SpacePrefix(Tail(t))

\* index of the last line-break run among the first k runs of t (0: none)
LastBreak(t, k) ==
    LET S == {i \in 1..k : t[i].c = "\n"}
    IN  IF S = {} THEN 0 ELSE CHOOSE i \in S : \A j \in S : j <= i

RECURSIVE CollapseBlank(_)
\* re.sub(r'\n\s*\n', '\n\n', text): a line break, any whitespace, a line
\* break (leftmost, longest) becomes two line breaks
CollapseBlank(t) ==
    IF t = <<>> THEN <<>>
    ELSE IF Head(t).c # "\n" THEN <<Head(t)>> \o CollapseBlank(Tail(t))
    ELSE LET j == LastBreak(t, SpacePrefix(t))
         IN  IF j = 1 /\ Head(t).n = 1
             THEN <<Head(t)>> \o CollapseBlank(Tail(t))
             ELSE NL(2) \o CollapseBlank(SubSeq(t, j + 1, Len(t)))

\* re.sub(r' +', ' ', text)
CollapseSpaces(t) ==
    [i \in 1..Len(t) |-> IF t[i].c = " " THEN Run(" ", 1) ELSE t[i]]

RECURSIVE Blank(_)
\* k empty lines
Blank(k) == IF k <= 0 THEN <<>> ELSE <<(<<>>)>> \o Blank(k - 1)

RECURSIVE Split(_, _)
\* the lines of t after the line under construction, cur
Split(t, cur) ==
    IF t = <<>> THEN <<cur>>
    ELSE IF Head(t).c = "\n"
         THEN <<cur>> \o Blank(Head(t).n - 1) \o Split(Tail(t), <<>>)
         ELSE Split(Tail(t), cur \o <<Head(t)>>)

\* str.splitlines(): no empty last line after a final line break
SplitLines(t) ==
    LET ls == Split(t, <<>>)
    IN  IF t = <<>> THEN <<>>
        ELSE IF ls[Len(ls)] = <<>> THEN SubSeq(ls, 1, Len(ls) - 1) ELSE ls

RECURSIVE Join(_)
\* '\n'.join(lines)
Join(ls) ==
    IF ls = <<>> THEN <<>>
    ELSE IF Len(ls) = 1 THEN Head(ls)
    ELSE Head(ls) \o NL(1) \o Join(Tail(ls))

\* ------------------------------------------------------- program constants

MinLineLen == 10
MaxCleanLen == 12000
MaxJinaLen == 15000
MinPrimaryLen == 100
MinFallbackLen == 50

\* "... [truncado]"
CleanMarker == X(3) \o SP(1) \o X(10)
\* "... [conteúdo truncado]"
JinaMarker == X(3) \o SP(1) \o X(9) \o SP(1) \o X(9)

\* ------------------------------------------------------------ _clean_text

RECURSIVE KeepLines(_)
\* the stripped lines longer than MinLineLen
KeepLines(ls) ==
    IF ls = <<>> THEN <<>>
    ELSE LET line == Strip(Head(ls))
         IN  IF TLen(line) > MinLineLen
             THEN <<line>> \o KeepLines(Tail(ls))
             ELSE KeepLines(Tail(ls))

Truncate(t) ==
    IF TLen(t) > MaxCleanLen THEN Canon(Take(t, MaxCleanLen) \o CleanMarker) ELSE t

_clean_text(text) ==
    IF text = <<>> THEN <<>>
    ELSE LET t1 == Canon(CollapseBlank(text))
             t2 == CollapseSpaces(t1)
             cleaned_text == Canon(Join(KeepLines(SplitLines(t2))))
         IN  Strip(Truncate(cleaned_text))

\* ------------------------------------------------------------------- URLs

Http == <<"h", "t", "t", "p", ":", "/", "/">>
Https == <<"h", "t", "t", "p", "s", ":", "/", "/">>

\* str.startswith(prefix)
StartsWith(s, prefix) ==
    Len(s) >= Len(prefix) /\ SubSeq(s, 1, Len(prefix)) = prefix

UrlA == Http \o <<"a">>
UrlB == Https \o <<"b">>
UrlFtp == <<"f", "t", "p", ":", "/", "/", "x">>
UrlC == Https \o <<"c">>
UrlBare == <<"h", "t", "t", "p">>
UrlEmpty == <<>>
Urls == {UrlA, UrlB, UrlFtp, UrlBare, UrlEmpty}
\* the URLs batches are drawn from
BatchUrls == {UrlB, UrlC, UrlFtp}

\* url.startswith(('http://', 'https://'))
IsHttp(url) == StartsWith(url, Http) \/ StartsWith(url, Https)

\* ValidUrl without the scheme test
ValidUrlAnyScheme(url) == url # <<>>

\* the guard of extract_content, negated: url and url.startswith((...))
ValidUrl(url) ==
    url # <<>> /\ (StartsWith(url, Http) \/ StartsWith(url, Https))

\* -------------------------------------------------------------- responses

\* what one request can end in: an exception (timeout, connection error),
\* a status other than 200, a 200 whose markup makes the parser raise, or a
\* 200 carrying a text
Texts ==
    { <<>>,
      X(11),
      X(MinFallbackLen),
      X(MinFallbackLen + 1),
      X(MinPrimaryLen),
      SP(2) \o X(MinPrimaryLen + 1) \o NL(2),
      X(95) \o SP(10),
      X(4) \o NL(1) \o SP(3) \o NL(2) \o X(60) \o SP(4) \o X(60) \o NL(1) \o X(10),
      X(16000) }

\* the pages the site behind a URL may serve: the first site serves any of
\* Texts, the second a page with navigation noise that every bar accepts,
\* the third a page that only the fallback bar accepts
Site(url) ==
    IF url = UrlA THEN Texts
    ELSE IF url = UrlB THEN {X(4) \o NL(1) \o X(60) \o SP(4) \o X(60)}
    ELSE {X(MinFallbackLen + 1)}

Resp(k, st, t) == [kind |-> k, status |-> st, text |-> t]

\* how a request to the site can fail: an exception (timeout, connection
\* error), a status other than 200, a 200 whose markup makes the parser raise;
\* the third site never fails
Failures(url) ==
    IF url = UrlA
    THEN {Resp("error", 0, <<>>), Resp("http", 404, <<>>), Resp("parse_error", 200, <<>>)}
    ELSE IF url = UrlB THEN {Resp("error", 0, <<>>)}
    ELSE {}

PageResponses(url) ==
    Failures(url) \cup {Resp("http", 200, t) : t \in Site(url)}
\* the render service answers with text: nothing is parsed
JinaResponses(url) ==
    {r \in PageResponses(url) : r.kind # "parse_error"}

\* ------------------------------------------------------------ the tiers

_extract_with_jina(resp) ==
    IF resp.kind # "http" THEN None
    ELSE IF resp.status = 200
         THEN IF TLen(resp.text) > MaxJinaLen
              THEN Canon(Take(resp.text, MaxJinaLen) \o JinaMarker)
              ELSE resp.text
         ELSE None

\* _extract_direct without the call of _clean_text
_extract_direct_raw(resp) ==
    IF resp.kind # "http" THEN None
    ELSE IF resp.status = 200 THEN resp.text ELSE None

_extract_direct(resp) ==
    IF resp.kind # "http" THEN None
    ELSE IF resp.status = 200 THEN _clean_text(resp.text) ELSE None

_extract_fallback(resp) ==
    IF resp.kind # "http" THEN None
    ELSE IF resp.status = 200
         THEN LET text == _clean_text(resp.text)
              IN  IF TLen(text) > MinFallbackLen THEN text ELSE None
         ELSE None

Extract(tier, resp) ==
    CASE tier = "jina" -> _extract_with_jina(resp)
      [] tier = "direct" -> _extract_direct(resp)
      [] tier = "fallback" -> _extract_fallback(resp)

\* what each tier returns for each response a site can give, tabulated
TierResults ==
    [tier \in {"jina", "direct", "fallback"} |->
        [resp \in UNION {PageResponses(url) : url \in Urls \cup BatchUrls} |->
            Extract(tier, resp)]]

MinLen(tier) == IF tier = "fallback" THEN MinFallbackLen ELSE MinPrimaryLen

\* Qualifies without the length bar
QualifiesNonEmpty(tier, content) == content # None /\ content # <<>>

\* content and len(content.strip()) > bar
Qualifies(tier, content) ==
    content # None /\ content # <<>> /\ TLen(Strip(content)) > MinLen(tier)

\* FirstTier without the credential test
FirstTierAlwaysJina(key) == "jina"

FirstTier(key) == IF key THEN "jina" ELSE "direct"

\* AfterTier returning at exhaustion without counting the failure
AfterTierDropsFailure(tier, content) ==
    IF Qualifies(tier, content) THEN "inc_succ"
    ELSE CASE tier = "jina" -> "direct"
           [] tier = "direct" -> "fallback"
           [] tier = "fallback" -> "done"

\* AfterTier giving up at the first tier that returns None
AfterTierErrorAborts(tier, content) ==
    IF Qualifies(tier, content) THEN "inc_succ"
    ELSE IF content = None THEN "inc_fail"
    ELSE CASE tier = "jina" -> "direct"
           [] tier = "direct" -> "fallback"
           [] tier = "fallback" -> "inc_fail"

\* AfterTier trying the direct tier again when the fallback tier missed
AfterTierRetries(tier, content) ==
    IF Qualifies(tier, content) THEN "inc_succ"
    ELSE CASE tier = "jina" -> "direct"
           [] tier = "direct" -> "fallback"
           [] tier = "fallback" -> "direct"

\* where extract_content goes after a tier returned content
AfterTier(tier, content) ==
    IF Qualifies(tier, content) THEN "inc_succ"
    ELSE CASE tier = "jina" -> "direct"
           [] tier = "direct" -> "fallback"
           [] tier = "fallback" -> "inc_fail"

\* ------------------------------------------------------------------ bounds

MaxCalls == 3
MaxBatchLen == 2
MaxWorkers == 2

\* batch_extract(urls, max_workers=5)
DefaultMaxWorkers == 5

\* -------------------------------------------------- ContentQualityValidator

\* the instance after __init__: the attributes it has
content_quality_validator ==
    [ min_content_length |-> 100,
      quality_thresholds |->
          [excellent |-> 90, good |-> 70, fair |-> 50, poor |-> 30] ]

relevance_keywords ==
    << "mercado", "negócio", "empresa", "crescimento", "oportunidade",
       "tendência", "análise", "dados", "pesquisa", "estudo" >>

\* A content string is given by its whitespace-separated tokens and its
\* whitespace: `plain` words of `plainChars` characters in all, with no digit
\* and no keyword in them; `pct` percentages "5%", each one match of the
\* pattern \d+% and of no other data pattern; kw[k] occurrences of the k-th
\* relevance keyword; `gaps` whitespace characters. `none` marks None.
NoKeywords == [k \in DOMAIN relevance_keywords |-> 0]

NoContent ==
    [none |-> TRUE, plain |-> 0, plainChars |-> 0, pct |-> 0,
     kw |-> NoKeywords, gaps |-> 0]

RECURSIVE KeywordTokens(_, _)
\* the occurrences of the first n keywords
KeywordTokens(kw, n) ==
    IF n = 0 THEN 0 ELSE KeywordTokens(kw, n - 1) + kw[n]

RECURSIVE KeywordChars(_, _)
\* the characters of the occurrences of the first n keywords
KeywordChars(kw, n) ==
    IF n = 0 THEN 0
    ELSE KeywordChars(kw, n - 1) + kw[n] * Len(relevance_keywords[n])

\* len(content)
LenOf(c) ==
    c.plainChars + c.pct * Len("5%")
        + KeywordChars(c.kw, Len(relevance_keywords)) + c.gaps

\* len(content.split())
WordCount(c) == c.plain + c.pct + KeywordTokens(c.kw, Len(relevance_keywords))

\* the matches re.findall finds, over the five data patterns
data_matches(c) == c.pct

\* relevance_matches counting every occurrence of a keyword
relevance_occurrences(c) == KeywordTokens(c.kw, Len(relevance_keywords))

\* sum(1 for keyword in relevance_keywords if keyword in content_lower)
relevance_matches(c) ==
    Cardinality({k \in DOMAIN relevance_keywords : c.kw[k] > 0})

\* the first n keywords, m times each
KeywordUse(n, m) ==
    [k \in DOMAIN relevance_keywords |-> IF k <= n THEN m ELSE 0]

\* whether a string has l characters, w words, d of them percentages, and
\* the first n keywords m times each
Feasible(l, w, d, n, m) ==
    LET rest == l - d * Len("5%") - KeywordChars(KeywordUse(n, m), n)
        plain == w - d - n * m
    IN  /\ plain >= 0
        /\ IF plain = 0
           THEN IF w = 0 THEN rest >= 0 ELSE rest >= w - 1
           ELSE rest - (w - 1) >= plain

\* such a string: its words one space apart
MakeContent(l, w, d, n, m) ==
    LET rest == l - d * Len("5%") - KeywordChars(KeywordUse(n, m), n)
        plain == w - d - n * m
    IN  [ none |-> FALSE, plain |-> plain,
          plainChars |-> IF plain = 0 THEN 0 ELSE rest - (w - 1),
          pct |-> d, kw |-> KeywordUse(n, m),
          gaps |-> IF plain = 0 THEN rest ELSE w - 1 ]

\* the longest content, and the most occurrences of one keyword
MaxContentLen == 2500
MaxOccurrences == 4

\* the values on both sides of every threshold of the rubric
LenSamples ==
    {0, 1, MaxContentLen} \cup UNION {{t - 1, t} : t \in {100, 500, 1000, 2000}}
WordSamples == {0, 1} \cup UNION {{t - 1, t} : t \in {75, 150, 300}}
DataSamples == {0} \cup UNION {{t - 1, t} : t \in {2, 5, 10}}
KeywordSamples ==
    {0, 1, Len(relevance_keywords)} \cup UNION {{t - 1, t} : t \in {3, 5, 8}}

\* the word counts tried for l characters with d percentages and n keywords
\* m times each: the samples; these tokens alone or with one plain word;
\* and as many one-character words as l characters hold, and one more
WordsTried(l, d, n, m) ==
    WordSamples \cup {d + n * m, d + n * m + 1}
        \cup {(l + 1) \div 2, (l + 1) \div 2 + 1}

Contents ==
    {NoContent} \cup
    { MakeContent(q[1], q[2], q[3], q[4], q[5]) :
        q \in { r \in UNION { { <<l, w, d, n, m>> : w \in WordsTried(l, d, n, m) } :
                                l \in LenSamples, d \in DataSamples,
                                n \in KeywordSamples,
                                m \in {1, MaxOccurrences} } :
                  /\ Feasible(r[1], r[2], r[3], r[4], r[5])
                  /\ r[4] = 0 => r[5] = 1 } }

\* a URL: its scheme ("" when the string has no "scheme://") and the labels
\* of the host that follows it
ValUrl(scheme, host) == [scheme |-> scheme, host |-> host]

ValUrls ==
    { ValUrl("https", <<"ibge", "gov", "br">>),
      ValUrl("https", <<"www", "sebrae", "com", "br">>),
      ValUrl("https", <<"g1", "globo", "com">>),
      ValUrl("https", <<"www", "estadao", "com", "br">>),
      ValUrl("https", <<"loja", "com", "br">>),
      ValUrl("https", <<"example", "com">>),
      ValUrl("", <<"ibge", "gov", "br">>) }

\* urlparse(url).netloc.lower(): empty unless the URL has "//" after a scheme
Netloc(u) == IF u.scheme = "" THEN <<>> ELSE u.host

\* pat in domain
InDomain(pat, domain) ==
    \E i \in 0..(Len(domain) - Len(pat)) :
        SubSeq(domain, i + 1, i + Len(pat)) = pat

\* domain.endswith('.com.br')
EndsWithComBr(domain) ==
    /\ Len(domain) > 2
    /\ SubSeq(domain, Len(domain) - 1, Len(domain)) = <<"com", "br">>

TrustedDomains ==
    { <<"gov", "br">>, <<"edu", "br">>, <<"org", "br">>,
      <<"ibge", "gov", "br">>, <<"sebrae", "com", "br">> }

NewsDomains ==
    { <<"g1", "globo", "com">>, <<"exame", "com">>,
      <<"valor", "globo", "com">>, <<"estadao", "com", "br">> }

IsTrusted(domain) == \E t \in TrustedDomains : InDomain(t, domain)
IsNews(domain) == \E t \in NewsDomains : InDomain(t, domain)

\* LengthScore with exclusive lower bounds
LengthScoreExclusive(c) ==
    IF LenOf(c) > 2000 THEN 25
    ELSE IF LenOf(c) > 1000 THEN 20
    ELSE IF LenOf(c) > 500 THEN 15
    ELSE IF LenOf(c) > content_quality_validator.min_content_length THEN 10
    ELSE 0

\* 1. Comprimento adequado
LengthScore(c) ==
    IF LenOf(c) >= 2000 THEN 25
    ELSE IF LenOf(c) >= 1000 THEN 20
    ELSE IF LenOf(c) >= 500 THEN 15
    ELSE IF LenOf(c) >= content_quality_validator.min_content_length THEN 10
    ELSE 0

\* WordScore with every threshold halved
WordScoreHalved(c) ==
    IF WordCount(c) >= 150 THEN 25
    ELSE IF WordCount(c) >= 75 THEN 20
    ELSE IF WordCount(c) >= 38 THEN 15
    ELSE 0

\* 2. Densidade de informação
WordScore(c) ==
    IF WordCount(c) >= 300 THEN 25
    ELSE IF WordCount(c) >= 150 THEN 20
    ELSE IF WordCount(c) >= 75 THEN 15
    ELSE 0

\* 3. Presença de dados estruturados
DataScore(c) ==
    IF data_matches(c) >= 10 THEN 20
    ELSE IF data_matches(c) >= 5 THEN 15
    ELSE IF data_matches(c) >= 2 THEN 10
    ELSE 0

\* TrustScore with 20 points for an official source
TrustScoreGenerous(u) ==
    IF IsTrusted(Netloc(u)) THEN 20
    ELSE IF IsNews(Netloc(u)) THEN 12
    ELSE IF EndsWithComBr(Netloc(u)) THEN 8
    ELSE 5

\* 4. Qualidade da fonte
TrustScore(u) ==
    IF IsTrusted(Netloc(u)) THEN 15
    ELSE IF IsNews(Netloc(u)) THEN 12
    ELSE IF EndsWithComBr(Netloc(u)) THEN 8
    ELSE 5

\* RelevanceScore over the occurrences of the keywords
RelevanceScoreOccurrences(c) ==
    IF relevance_occurrences(c) >= 8 THEN 15
    ELSE IF relevance_occurrences(c) >= 5 THEN 12
    ELSE IF relevance_occurrences(c) >= 3 THEN 8
    ELSE 0

\* 5. Relevância do conteúdo
RelevanceScore(c) ==
    IF relevance_matches(c) >= 8 THEN 15
    ELSE IF relevance_matches(c) >= 5 THEN 12
    ELSE IF relevance_matches(c) >= 3 THEN 8
    ELSE 0

\* QualityLevel with the good and fair thresholds exchanged
QualityLevelSwapped(score) ==
    IF score >= content_quality_validator.quality_thresholds.excellent
    THEN "excellent"
    ELSE IF score >= content_quality_validator.quality_thresholds.fair THEN "good"
    ELSE IF score >= content_quality_validator.quality_thresholds.good THEN "fair"
    ELSE "poor"

\* Determina nível de qualidade
QualityLevel(score) ==
    IF score >= content_quality_validator.quality_thresholds.excellent
    THEN "excellent"
    ELSE IF score >= content_quality_validator.quality_thresholds.good THEN "good"
    ELSE IF score >= content_quality_validator.quality_thresholds.fair THEN "fair"
    ELSE "poor"

When(b, tag) == IF b THEN <<tag>> ELSE <<>>

\* validation_result['issues'], in the order the tests append to it
Issues(c) ==
    When(LenOf(c) < content_quality_validator.min_content_length,
         "Conteúdo muito curto")
    \o When(WordCount(c) < 75, "Baixa densidade de palavras")
    \o When(data_matches(c) < 2, "Poucos dados estruturados")
    \o When(relevance_matches(c) < 3, "Baixa relevância temática")

\* validation_result['strengths'], in the order the tests append to it
Strengths(c, u) ==
    When(LenOf(c) >= 2000, "Conteúdo extenso")
    \o When(LenOf(c) >= 1000 /\ LenOf(c) < 2000, "Conteúdo substancial")
    \o When(WordCount(c) >= 300, "Alta densidade de palavras")
    \o When(data_matches(c) >= 10, "Rico em dados numéricos")
    \o When(IsTrusted(Netloc(u)), "Fonte oficial/confiável")
    \o When(~IsTrusted(Netloc(u)) /\ IsNews(Netloc(u)),
            "Fonte jornalística confiável")
    \o When(relevance_matches(c) >= 8, "Altamente relevante")

\* not content
Falsy(c) == c.none \/ LenOf(c) = 0

\* IsValid asking for a level of fair or better
IsValidByLevel(c, score) ==
    /\ LenOf(c) >= content_quality_validator.min_content_length
    /\ QualityLevel(score) # "poor"

\* Valida se atende critérios mínimos
IsValid(c, score) ==
    /\ LenOf(c) >= content_quality_validator.min_content_length
    /\ score >= content_quality_validator.quality_thresholds.poor

\* the dict validate_content(c, u) returns
validate_content(c, u) ==
    IF Falsy(c)
    THEN [ valid |-> FALSE, quality_score |-> 0, quality_level |-> "invalid",
           issues |-> <<"Conteúdo vazio">>, url |-> u ]
    ELSE LET score == LengthScore(c) + WordScore(c) + DataScore(c)
                        + TrustScore(u) + RelevanceScore(c)
         IN  [ valid |-> IsValid(c, score),
               quality_score |-> score,
               quality_level |-> QualityLevel(score),
               issues |-> Issues(c),
               strengths |-> Strengths(c, u),
               url |-> u,
               content_length |-> LenOf(c),
               word_count |-> WordCount(c) ]

\* the dict validate_batch(cd) returns
validate_batch(cd) == [u \in DOMAIN cd |-> validate_content(cd[u], u)]

\* how a call ended
NotCalled == [state |-> "not called"]
Return(value) == [state |-> "returned", value |-> value]
Raise(exception) == [state |-> "raised", exception |-> exception]

\* self.stats.copy(), on the validator
validator_get_extractor_stats ==
    IF "stats" \in DOMAIN content_quality_validator
    THEN Return(content_quality_validator.stats)
    ELSE Raise("AttributeError")

RECURSIVE SumScores(_, _)
\* sum(v['quality_score'] for v in validations.values()), over the keys S
SumScores(v, S) ==
    IF S = {} THEN 0
    ELSE LET u == CHOOSE x \in S : TRUE
         IN  v[u].quality_score + SumScores(v, S \ {u})

\* the quotient num / den as a fraction
Ratio(num, den) == [num |-> num, den |-> den]

\* round(num / den, 2), in hundredths (no tie arises with den < 8)
Round2(num, den) == (2 * 100 * num + den) \div (2 * den)

\* get_validation_summary(v): how it ends
get_validation_summary(v) ==
    LET total == Cardinality(DOMAIN v)
        valid_count == Cardinality({u \in DOMAIN v : v[u].valid})
        levels == {v[u].quality_level : u \in DOMAIN v}
        quality_distribution ==
            [l \in levels |->
                Cardinality({u \in DOMAIN v : v[u].quality_level = l})]
        extractor_stats == validator_get_extractor_stats
    IN  IF extractor_stats.state = "raised" THEN extractor_stats
        ELSE Return(
            [ total_validated |-> total,
              valid_content |-> valid_count,
              invalid_content |-> total - valid_count,
              success_rate |-> IF total > 0 THEN Ratio(valid_count * 100, total)
                               ELSE Ratio(0, 1),
              average_quality_score_x100 |->
                  IF total > 0 THEN Round2(SumScores(v, DOMAIN v), total) ELSE 0,
              quality_distribution |-> quality_distribution,
              extractor_stats |-> extractor_stats.value ])

\* the most entries of a content_dict
MaxReports == 2

SumUrls ==
    { ValUrl("https", <<"ibge", "gov", "br">>),
      ValUrl("https", <<"loja", "com", "br">>),
      ValUrl("https", <<"example", "com">>) }

\* None, the empty string, a short text and a long, rich one
SumContents ==
    { NoContent, MakeContent(0, 0, 0, 0, 1), MakeContent(99, 1, 0, 0, 1),
      MakeContent(2000, 300, 10, 8, 1) }

ContentDicts ==
    UNION { [S -> SumContents] :
              S \in {T \in SUBSET SumUrls : Cardinality(T) <= MaxReports} }

\* ------------------------------------------------------------------- state

VARIABLES
    jina_api_key,   \* whether JINA_API_KEY is set (read once, in __init__)
    stats,          \* self.stats
    task,           \* the extract_content executions, by frame / future
    calls,          \* extract_content calls made by the sequential caller
    httpCalls,      \* those of them whose URL starts with http:// or https://
    statsAtCall,    \* self.stats when the latest of them was made
    bpc,            \* batch_extract: "idle", "running", "returned"
    urls,           \* its argument urls
    max_workers,    \* its argument max_workers
    future_to_url,  \* its dict future -> url
    results,        \* its dict url -> content
    collected,      \* the futures as_completed has yielded
    stats0,         \* self.stats when batch_extract was called
    contributed,    \* what the calls of the returned batches add to self.stats
    vcontent,       \* validate_content: its argument content
    vurl,           \* validate_content: its argument url
    report,         \* validate_content: what it returned
    content_dict,   \* validate_batch: its argument content_dict
    validations,    \* validate_batch: what it returned
    summary         \* get_validation_summary: how it ended

vars ==
    <<jina_api_key, stats, task, calls, httpCalls, statsAtCall, bpc, urls, max_workers,
      future_to_url, results, collected, stats0, contributed,
      vcontent, vurl, report, content_dict, validations, summary>>

validatorVars == <<vcontent, vurl, report, content_dict, validations, summary>>

batchVars ==
    <<bpc, urls, max_workers, future_to_url, results, collected, stats0, contributed>>

Frames == 1..MaxBatchLen

ZeroStats ==
    [ total_extractions |-> 0, successful_extractions |-> 0,
      failed_extractions |-> 0, jina_successes |-> 0,
      direct_successes |-> 0, fallback_successes |-> 0 ]

NoTask ==
    [ pc |-> "none", url |-> <<>>, loaded |-> FALSE, tmp |-> 0,
      content |-> None, raw |-> None, attempts |-> <<>>,
      ret |-> None, strategy |-> "none" ]

EmptyDict == [u \in {} |-> None]

InitExtractor ==
    /\ jina_api_key \in BOOLEAN
    /\ stats = ZeroStats
    /\ task = [i \in Frames |-> NoTask]
    /\ calls = 0
    /\ httpCalls = 0
    /\ statsAtCall = ZeroStats
    /\ bpc = "idle"
    /\ urls = <<>>
    /\ max_workers = 0
    /\ future_to_url = <<>>
    /\ results = EmptyDict
    /\ collected = {}
    /\ stats0 = ZeroStats
    /\ contributed = ZeroStats

\* the validator before any call
InitValidator ==
    /\ vcontent = NoContent
    /\ vurl = ValUrl("", <<>>)
    /\ report = NotCalled
    /\ content_dict = EmptyDict
    /\ validations = NotCalled
    /\ summary = NotCalled

Init == InitExtractor /\ InitValidator

\* -------------------------------------------------------- extract_content

\* Enter recording a rejected URL as a failure
EnterCountsInvalid(url) ==
    IF ValidUrl(url)
    THEN [NoTask EXCEPT !.pc = "inc_total", !.url = url]
    ELSE [NoTask EXCEPT !.pc = "inc_fail", !.url = url]

\* the frame of extract_content(url) once the URL guard has been evaluated
Enter(url) ==
    IF ValidUrl(url)
    THEN [NoTask EXCEPT !.pc = "inc_total", !.url = url]
    ELSE [NoTask EXCEPT !.pc = "done", !.url = url]

\* CounterOf counting every success as one of the direct tier
CounterOfAlwaysDirect(pc, strategy) ==
    CASE pc = "inc_total" -> "total_extractions"
      [] pc = "inc_succ" -> "successful_extractions"
      [] pc = "inc_fail" -> "failed_extractions"
      [] pc = "inc_strat" -> "direct_successes"

\* the counter the statement at pc increments
CounterOf(pc, strategy) ==
    CASE pc = "inc_total" -> "total_extractions"
      [] pc = "inc_succ" -> "successful_extractions"
      [] pc = "inc_fail" -> "failed_extractions"
      [] pc = "inc_strat" /\ strategy = "jina" -> "jina_successes"
      [] pc = "inc_strat" /\ strategy = "direct" -> "direct_successes"
      [] pc = "inc_strat" /\ strategy = "fallback" -> "fallback_successes"

IncPcs == {"inc_total", "inc_succ", "inc_strat", "inc_fail"}

\* self.stats[k] += 1, first half: the counter is read
Load(i) ==
    /\ task[i].pc \in IncPcs
    /\ ~task[i].loaded
    /\ task' = [task EXCEPT ![i].loaded = TRUE,
                            ![i].tmp = stats[CounterOf(task[i].pc, task[i].strategy)]]
    /\ UNCHANGED <<jina_api_key, stats, calls, httpCalls, statsAtCall, batchVars, validatorVars>>

\* the frame after the increment at its pc has been stored
AfterStore(t, key) ==
    LET u == [t EXCEPT !.loaded = FALSE, !.tmp = 0]
    IN  CASE t.pc = "inc_total" -> [u EXCEPT !.pc = FirstTier(key)]
          [] t.pc = "inc_succ" -> [u EXCEPT !.pc = "inc_strat"]
          [] t.pc = "inc_strat" -> [u EXCEPT !.pc = "done", !.ret = t.content]
          [] t.pc = "inc_fail" -> [u EXCEPT !.pc = "done", !.ret = None]

\* self.stats[k] += 1, second half: the value read, plus one, is written
Store(i) ==
    /\ task[i].pc \in IncPcs
    /\ task[i].loaded
    /\ stats' = [stats EXCEPT ![CounterOf(task[i].pc, task[i].strategy)] = task[i].tmp + 1]
    /\ task' = [task EXCEPT ![i] = AfterStore(task[i], jina_api_key)]
    /\ UNCHANGED <<jina_api_key, calls, httpCalls, statsAtCall, batchVars, validatorVars>>

\* the frame after `tier` made its request and got resp
AfterRequest(t, tier, resp) ==
    LET content == TierResults[tier][resp]
    IN  [t EXCEPT !.pc = AfterTier(tier, content),
                  !.content = content,
                  !.raw = IF resp.kind = "http" /\ resp.status = 200
                          THEN resp.text ELSE None,
                  !.attempts = Append(t.attempts,
                                      [tier |-> tier, kind |-> resp.kind,
                                       status |-> resp.status,
                                       hit |-> Qualifies(tier, content)]),
                  !.strategy = IF Qualifies(tier, content) THEN tier ELSE t.strategy]

Jina(i) ==
    /\ task[i].pc = "jina"
    /\ \E resp \in JinaResponses(task[i].url) :
          task' = [task EXCEPT ![i] = AfterRequest(task[i], "jina", resp)]
    /\ UNCHANGED <<jina_api_key, stats, calls, httpCalls, statsAtCall, batchVars, validatorVars>>

Direct(i) ==
    /\ task[i].pc = "direct"
    /\ \E resp \in PageResponses(task[i].url) :
          task' = [task EXCEPT ![i] = AfterRequest(task[i], "direct", resp)]
    /\ UNCHANGED <<jina_api_key, stats, calls, httpCalls, statsAtCall, batchVars, validatorVars>>

Fallback(i) ==
    /\ task[i].pc = "fallback"
    /\ \E resp \in PageResponses(task[i].url) :
          task' = [task EXCEPT ![i] = AfterRequest(task[i], "fallback", resp)]
    /\ UNCHANGED <<jina_api_key, stats, calls, httpCalls, statsAtCall, batchVars, validatorVars>>

\* a caller on the main thread calls extract_content(url)
Call(url) ==
    /\ bpc = "idle"
    /\ task[1].pc \in {"none", "done"}
    /\ calls < MaxCalls
    /\ task' = [task EXCEPT ![1] = Enter(url)]
    /\ calls' = calls + 1
    /\ httpCalls' = httpCalls + (IF IsHttp(url) THEN 1 ELSE 0)
    /\ statsAtCall' = stats
    /\ UNCHANGED <<jina_api_key, stats, batchVars, validatorVars>>

NextSeq ==
    \/ \E url \in Urls : Call(url)
    \/ Load(1)
    \/ Store(1)
    \/ Jina(1)
    \/ Direct(1)
    \/ Fallback(1)

SpecSeq == Init /\ [][NextSeq]_vars

\* ---------------------------------------------------------- batch_extract

RECURSIVE Distinct(_)
\* the elements of us, each once, in order of first occurrence
Distinct(us) ==
    IF us = <<>> THEN <<>>
    ELSE LET d == Distinct(SubSeq(us, 1, Len(us) - 1))
             x == us[Len(us)]
         IN  IF \E i \in 1..Len(d) : d[i] = x THEN d ELSE Append(d, x)

\* Submit with one future per distinct URL
SubmitDistinct(us) == Distinct(us)

\* {executor.submit(self.extract_content, url): url for url in urls}:
\* one future per element of urls, future i for urls[i]
Submit(us) == [i \in 1..Len(us) |-> us[i]]

\* SetResult leaving out the URLs whose content is None
SetResultSkipsNone(res, url, content) ==
    IF content = None THEN res
    ELSE [u \in DOMAIN res \cup {url} |-> IF u = url THEN content ELSE res[u]]

\* SetResult starting the mapping afresh when a URL's content is None
SetResultFailureClears(res, url, content) ==
    IF content = None THEN [u \in {url} |-> None]
    ELSE [u \in DOMAIN res \cup {url} |-> IF u = url THEN content ELSE res[u]]

\* results[url] = content
SetResult(res, url, content) ==
    [u \in DOMAIN res \cup {url} |-> IF u = url THEN content ELSE res[u]]

RECURSIVE SeqsUpTo(_, _)
\* the sequences over S of length at most k
SeqsUpTo(S, k) ==
    IF k = 0 THEN {<<>>}
    ELSE LET shorter == SeqsUpTo(S, k - 1)
         IN  shorter \cup {Append(q, x) : q \in shorter, x \in S}

Running == {i \in Frames : task[i].pc \notin {"none", "pending", "done"}}

\* a pool that starts a thread for every work item
HasIdleWorkerAlways == TRUE

\* whether the pool has a thread that is in no extract_content call: the
\* executor keeps at most max_workers threads, each in one call at a time
HasIdleWorker == Cardinality(Running) < max_workers

\* the values of max_workers: given by the caller, or the default
PoolWidths == (1..MaxWorkers) \cup {DefaultMaxWorkers}

BatchCall(us, mw) ==
    /\ bpc = "idle"
    /\ urls' = us
    /\ max_workers' = mw
    /\ future_to_url' = Submit(us)
    /\ task' = [i \in Frames |->
                  IF i \in DOMAIN Submit(us)
                  THEN [NoTask EXCEPT !.pc = "pending", !.url = Submit(us)[i]]
                  ELSE NoTask]
    /\ results' = EmptyDict
    /\ collected' = {}
    /\ stats0' = stats
    /\ bpc' = "running"
    /\ UNCHANGED <<jina_api_key, stats, calls, httpCalls, statsAtCall, contributed,
                   validatorVars>>

\* a pool thread takes the oldest queued work item and enters extract_content
WorkerStart(i) ==
    /\ bpc = "running"
    /\ task[i].pc = "pending"
    /\ \A j \in Frames : j < i => task[j].pc # "pending"
    /\ HasIdleWorker
    /\ task' = [task EXCEPT ![i] = Enter(task[i].url)]
    /\ UNCHANGED <<jina_api_key, stats, calls, httpCalls, statsAtCall, batchVars, validatorVars>>

\* as_completed yields a finished future; its result goes into results
Collect(i) ==
    /\ bpc = "running"
    /\ i \in DOMAIN future_to_url
    /\ i \notin collected
    /\ task[i].pc = "done"
    /\ results' = SetResult(results, future_to_url[i], task[i].ret)
    /\ collected' = collected \cup {i}
    /\ UNCHANGED <<jina_api_key, stats, task, calls, httpCalls, statsAtCall, bpc, urls,
                   max_workers, future_to_url, stats0, contributed, validatorVars>>

BatchReturn ==
    /\ bpc = "running"
    /\ collected = DOMAIN future_to_url
    /\ bpc' = "returned"
    /\ UNCHANGED <<jina_api_key, stats, task, calls, httpCalls, statsAtCall, urls,
                   max_workers, future_to_url, results, collected, stats0,
                   contributed, validatorVars>>

Next ==
    \/ \E us \in SeqsUpTo(BatchUrls, MaxBatchLen), mw \in PoolWidths :
          BatchCall(us, mw)
    \/ \E i \in Frames : WorkerStart(i)
    \/ \E i \in Frames : Load(i)
    \/ \E i \in Frames : Store(i)
    \/ \E i \in Frames : Jina(i)
    \/ \E i \in Frames : Direct(i)
    \/ \E i \in Frames : Fallback(i)
    \/ \E i \in Frames : Collect(i)
    \/ BatchReturn

Spec == Init /\ [][Next]_vars

\* the same, with the scheduling the threads get: while some thread can
\* take a step (every request ends, by its timeout at the latest), one does
SpecFair == Init /\ [][Next]_vars /\ WF_vars(Next)

\* ------------------------------------------------ the extractor's lifetime

StatsPlus(a, b) == [k \in DOMAIN a |-> a[k] + b[k]]

\* what the extract_content call of the finished frame t adds to self.stats:
\* nothing for a rejected URL; otherwise one total_extractions, and either
\* one successful_extractions and one success of the winning strategy or
\* one failed_extractions
Contribution(t) ==
    LET One(b) == IF b THEN 1 ELSE 0
    IN  [ total_extractions |-> One(ValidUrl(t.url)),
          successful_extractions |-> One(t.strategy # "none"),
          failed_extractions |-> One(ValidUrl(t.url) /\ t.strategy = "none"),
          jina_successes |-> One(t.strategy = "jina"),
          direct_successes |-> One(t.strategy = "direct"),
          fallback_successes |-> One(t.strategy = "fallback") ]

RECURSIVE Contributions(_)
\* what the calls of the futures 1..n of the batch add together
Contributions(n) ==
    IF n = 0 THEN ZeroStats
    ELSE StatsPlus(Contributions(n - 1), Contribution(task[n]))

\* batch_extract(us, mw) called again on the same extractor, after the
\* previous batch_extract has returned
BatchAgain(us, mw) ==
    /\ bpc = "returned"
    /\ stats.total_extractions + Cardinality({i \in 1..Len(us) : IsHttp(us[i])})
          <= MaxCalls
    /\ contributed' = StatsPlus(contributed, Contributions(Len(future_to_url)))
    /\ urls' = us
    /\ max_workers' = mw
    /\ future_to_url' = Submit(us)
    /\ task' = [i \in Frames |->
                  IF i \in DOMAIN Submit(us)
                  THEN [NoTask EXCEPT !.pc = "pending", !.url = Submit(us)[i]]
                  ELSE NoTask]
    /\ results' = EmptyDict
    /\ collected' = {}
    /\ stats0' = stats
    /\ bpc' = "running"
    /\ UNCHANGED <<jina_api_key, stats, calls, httpCalls, statsAtCall, validatorVars>>

\* get_extractor_stats(): returns a new dict made from self.stats, the
\* success rate and whether the key is set; nothing is written
get_extractor_stats ==
    /\ bpc # "running"
    /\ UNCHANGED vars

\* clear_cache(): logs a message and returns True
clear_cache ==
    /\ bpc # "running"
    /\ UNCHANGED vars

NextLife ==
    \/ Next
    \/ \E us \in SeqsUpTo(BatchUrls, MaxBatchLen), mw \in PoolWidths :
          BatchAgain(us, mw)
    \/ get_extractor_stats
    \/ clear_cache

SpecLife == Init /\ [][NextLife]_vars

\* ------------------------------------------------- validate_content, alone

InitVal ==
    /\ InitExtractor
    /\ vcontent \in Contents
    /\ vurl \in ValUrls
    /\ report = NotCalled
    /\ content_dict = EmptyDict
    /\ validations = NotCalled
    /\ summary = NotCalled

\* content_quality_validator.validate_content(vcontent, vurl)
ValidateContent ==
    /\ report = NotCalled
    /\ report' = Return(validate_content(vcontent, vurl))
    /\ UNCHANGED <<jina_api_key, stats, task, calls, httpCalls, statsAtCall, batchVars,
                   vcontent, vurl, content_dict, validations, summary>>

NextVal == ValidateContent

SpecVal == InitVal /\ [][NextVal]_vars

\* ----------------------------------- validate_batch, get_validation_summary

InitSum ==
    /\ InitExtractor
    /\ vcontent = NoContent
    /\ vurl = ValUrl("", <<>>)
    /\ report = NotCalled
    /\ content_dict \in ContentDicts
    /\ validations = NotCalled
    /\ summary = NotCalled

\* content_quality_validator.validate_batch(content_dict)
ValidateBatch ==
    /\ validations = NotCalled
    /\ validations' = Return(validate_batch(content_dict))
    /\ UNCHANGED <<jina_api_key, stats, task, calls, httpCalls, statsAtCall, batchVars,
                   vcontent, vurl, report, content_dict, summary>>

\* content_quality_validator.get_validation_summary(validations)
GetValidationSummary ==
    /\ validations # NotCalled
    /\ summary = NotCalled
    /\ summary' = get_validation_summary(validations.value)
    /\ UNCHANGED <<jina_api_key, stats, task, calls, httpCalls, statsAtCall, batchVars,
                   vcontent, vurl, report, content_dict, validations>>

NextSum == ValidateBatch \/ GetValidationSummary

SpecSum == InitSum /\ [][NextSum]_vars

\* ================================================================= claims

\* the frame of the sequential caller's latest extract_content call
Frame == task[1]
Idle == Frame.pc \in {"none", "done"}
Returned == Frame.pc = "done"
Succeeded == stats.successful_extractions
Failed == stats.failed_extractions

\* C1 as stated: after N sequential extract_content calls on a fresh
\* extractor, whatever the URLs, total_extractions = N and
\* successful_extractions + failed_extractions = N.
C1_TotalCountsEveryCall ==
    Idle => /\ stats.total_extractions = calls
            /\ Succeeded + Failed = calls

\* C1 amended: after N sequential calls, total_extractions is the number of
\* those calls whose URL starts with http:// or https://, and
\* successful_extractions + failed_extractions is that same number; a call
\* with an empty or non-http URL is counted nowhere.
C1_TotalCountsHttpCalls ==
    Idle => /\ stats.total_extractions = httpCalls
            /\ Succeeded + Failed = httpCalls

C1_Witness ==
    /\ Returned
    /\ calls > httpCalls
    /\ Succeeded >= 1
    /\ Failed >= 1

\* the tiers a call goes through when none of them hits
Chain == IF jina_api_key THEN <<"jina", "direct", "fallback">>
         ELSE <<"direct", "fallback">>

\* C4: the tiers are attempted in the order remote-render, direct, fallback,
\* the remote-render tier only with a credential configured, each later tier
\* only after every earlier attempted tier missed, none after a hit; the
\* hit's content and strategy are the ones returned and counted.
C4_TierOrder ==
    LET a == Frame.attempts
    IN  /\ Len(a) <= Len(Chain)
        /\ \A i \in 1..Len(a) : a[i].tier = Chain[i]
        /\ \A i \in 1..Len(a) : i < Len(a) => ~a[i].hit
        /\ (Returned /\ Frame.ret # None) =>
              /\ a # <<>>
              /\ a[Len(a)].hit
              /\ Frame.strategy = a[Len(a)].tier
              /\ Frame.ret = Frame.content
              /\ Succeeded = statsAtCall.successful_extractions + 1
              /\ stats.jina_successes = statsAtCall.jina_successes
                    + (IF Frame.strategy = "jina" THEN 1 ELSE 0)
              /\ stats.direct_successes = statsAtCall.direct_successes
                    + (IF Frame.strategy = "direct" THEN 1 ELSE 0)
              /\ stats.fallback_successes = statsAtCall.fallback_successes
                    + (IF Frame.strategy = "fallback" THEN 1 ELSE 0)

C4_Witness ==
    /\ Returned
    /\ jina_api_key
    /\ Len(Frame.attempts) = 3
    /\ Frame.strategy = "fallback"
    /\ Frame.ret # None

\* a request that ended in an exception, a non-200 status or a parse error
Errored(at) == at.kind # "http" \/ at.status # 200

\* C5: an error in one tier is a miss of that tier only: the next tier of
\* the chain is attempted, and the call reports failure (None and one more
\* failed_extractions) only when every tier of the chain was attempted
\* and missed.
C5_ErrorIsAMiss ==
    LET a == Frame.attempts
    IN  /\ \A i \in 1..Len(a) :
              Errored(a[i]) =>
                 /\ ~a[i].hit
                 /\ i < Len(a) => a[i + 1].tier = Chain[i + 1]
                 /\ i = Len(a) =>
                       IF i < Len(Chain) THEN Frame.pc = Chain[i + 1]
                       ELSE Frame.pc \in {"inc_fail", "done"}
        /\ Frame.pc = "inc_fail" \/ (Returned /\ IsHttp(Frame.url) /\ Frame.ret = None) =>
              /\ Len(a) = Len(Chain)
              /\ \A i \in 1..Len(a) : ~a[i].hit
        /\ (Returned /\ IsHttp(Frame.url) /\ Frame.ret = None) =>
              Failed = statsAtCall.failed_extractions + 1
        /\ (Returned /\ Frame.ret # None) =>
              Failed = statsAtCall.failed_extractions

C5_Witness ==
    /\ Returned
    /\ Len(Frame.attempts) = 3
    /\ Frame.attempts[1].kind = "error"
    /\ Frame.attempts[2].kind = "parse_error"
    /\ Frame.attempts[3].hit

\* C6: for an empty URL or one that does not start with http:// or
\* https://, extract_content returns None at once: no tier is entered and
\* no request is made.
C6_InvalidUrlNoRequest ==
    (Frame.pc # "none" /\ ~IsHttp(Frame.url)) =>
        /\ Returned
        /\ Frame.ret = None
        /\ Frame.attempts = <<>>

C6_Witness ==
    /\ Returned
    /\ Frame.url = UrlFtp
    /\ calls >= 2

\* C7 as stated: every call that returns None has incremented
\* failed_extractions by exactly one, a rejected URL included, and every
\* call that returns content has left failed_extractions unchanged.
C7_NoneCountsAsFailure ==
    Returned =>
        IF Frame.ret = None
        THEN Failed = statsAtCall.failed_extractions + 1
        ELSE Failed = statsAtCall.failed_extractions

\* C7 amended: extract_content always returns; a call with an http(s) URL
\* returns None only when every tier of the chain missed, and has then
\* incremented failed_extractions by exactly one; a call with an empty or
\* non-http URL returns None and changes no counter (the rejection is not
\* recorded as a failure); a call that returns content leaves
\* failed_extractions unchanged.
C7_NoneIsExhaustionOrRejection ==
    Returned =>
        IF Frame.ret # None
        THEN Failed = statsAtCall.failed_extractions
        ELSE IF IsHttp(Frame.url)
             THEN /\ Failed = statsAtCall.failed_extractions + 1
                  /\ Len(Frame.attempts) = Len(Chain)
                  /\ \A i \in 1..Len(Frame.attempts) : ~Frame.attempts[i].hit
             ELSE stats = statsAtCall

C7_Witness ==
    /\ Returned
    /\ Frame.ret = None
    /\ ~IsHttp(Frame.url)
    /\ Failed >= 1

\* C8: returned content is at least 100 characters long when the
\* remote-render or the direct tier produced it, at least 50 when the
\* fallback tier did; so a return value is None or at least 50 long.
C8_LengthBar ==
    Returned =>
        \/ Frame.ret = None
        \/ /\ Frame.strategy \in {"jina", "direct"} => TLen(Frame.ret) >= MinPrimaryLen
           /\ Frame.strategy = "fallback" => TLen(Frame.ret) >= MinFallbackLen
           /\ TLen(Frame.ret) >= MinFallbackLen

C8_Witness ==
    /\ Returned
    /\ Frame.strategy = "fallback"
    /\ Frame.ret # None
    /\ TLen(Frame.ret) < MinPrimaryLen

\* what _clean_text leaves: no outer whitespace, single spaces, single line
\* breaks, only lines longer than MinLineLen, the size cap
IsClean(t) ==
    /\ Strip(t) = t
    /\ \A i \in 1..Len(t) : IsSpace(t[i].c) => t[i].n = 1
    /\ \A i \in 1..Len(t) - 1 : ~(IsSpace(t[i].c) /\ IsSpace(t[i + 1].c))
    /\ LET ls == SplitLines(t)
       IN  \A k \in 1..Len(ls) : TLen(ls[k]) > MinLineLen
    /\ TLen(t) <= MaxCleanLen + TLen(CleanMarker)

\* C9 as stated: whichever tier wins, the returned content is the tier's
\* raw text passed through _clean_text.
C9_EveryTierNormalizes ==
    (Returned /\ Frame.ret # None) =>
        /\ Frame.ret = _clean_text(Frame.raw)
        /\ IsClean(Frame.ret)

\* C9 amended: when the direct or the fallback tier wins, the returned
\* content is the tier's raw text passed through _clean_text; when the
\* remote-render tier wins, it is the response text as received, cut to
\* 15000 characters plus a marker when longer, and not passed through
\* _clean_text.
C9_PageTiersNormalize ==
    (Returned /\ Frame.ret # None) =>
        IF Frame.strategy = "jina"
        THEN Frame.ret = IF TLen(Frame.raw) > MaxJinaLen
                         THEN Canon(Take(Frame.raw, MaxJinaLen) \o JinaMarker)
                         ELSE Frame.raw
        ELSE /\ Frame.ret = _clean_text(Frame.raw)
             /\ IsClean(Frame.ret)

C9_Witness ==
    /\ Returned
    /\ Frame.strategy = "direct"
    /\ Frame.ret # None
    /\ Frame.ret # Frame.raw

\* ----------------------------------------------------------- batch claims

BatchReturned == bpc = "returned"
Futures == DOMAIN future_to_url
UrlSet == {urls[i] : i \in 1..Len(urls)}
Occurrences(u) == Cardinality({i \in 1..Len(urls) : urls[i] = u})
HttpCount == Cardinality({i \in 1..Len(urls) : IsHttp(urls[i])})
\* the futures whose extract_content ran the strategy chain for u
ChainRuns(u) ==
    {i \in Futures : task[i].url = u /\ task[i].attempts # <<>>}

\* C2: with a pool of two or more workers no counter update is lost: once
\* the batch has returned, total_extractions has grown by the number k of
\* http(s) URLs of the batch, and so has successful_extractions +
\* failed_extractions.
C2_NoLostUpdate ==
    (BatchReturned /\ max_workers >= 2) =>
        /\ stats.total_extractions - stats0.total_extractions = HttpCount
        /\ (Succeeded + Failed)
              - (stats0.successful_extractions + stats0.failed_extractions)
           = HttpCount

\* C14: the counters are cumulative over the extractor's lifetime: calling
\* batch_extract resets none of them, get_extractor_stats and clear_cache
\* change nothing, no step decreases a counter, and when a batch returns
\* after an earlier one the counters are the sum of what the calls of all
\* the batches contribute.
C14_StatsCumulative ==
    /\ [][(bpc # "running" /\ bpc' = "running") => stats' = stats]_vars
    /\ [][(get_extractor_stats \/ clear_cache) => UNCHANGED vars]_vars
    /\ [][\A k \in DOMAIN stats : stats'[k] >= stats[k]]_vars
    /\ []((BatchReturned /\ contributed.total_extractions > 0) =>
            stats = StatsPlus(contributed, Contributions(Len(future_to_url))))

\* C3: the mapping batch_extract returns has exactly the input URLs as its
\* keys, and each value is a content string or None.
C3_KeysAreInputUrls ==
    BatchReturned =>
        /\ DOMAIN results = UrlSet
        /\ \A u \in DOMAIN results :
              \/ results[u] = None
              \/ \A k \in 1..Len(results[u]) :
                    results[u][k].c \in {"x", " ", "\n"} /\ results[u][k].n >= 1

C3_Witness ==
    /\ BatchReturned
    /\ urls = <<UrlFtp, UrlB>>
    /\ results[UrlB] = None
    /\ results[UrlFtp] = None

OwnOutcome(t) ==
    IF t.attempts # <<>> /\ t.attempts[Len(t.attempts)].hit
    THEN IF t.strategy = "jina"
         THEN (IF TLen(t.raw) > MaxJinaLen
               THEN Canon(Take(t.raw, MaxJinaLen) \o JinaMarker)
               ELSE t.raw)
         ELSE _clean_text(t.raw)
    ELSE None

\* C11: each URL's task is isolated: when the batch returns, every future
\* has run to its end, the result of each is what its own tier outcomes
\* give, whatever the other URLs did (rejected, failed every tier), and the
\* value mapped to a URL is the result of a task of that URL.
C11_TasksIsolated ==
    BatchReturned =>
        /\ \A i \in Futures :
              /\ task[i].pc = "done"
              /\ task[i].url = urls[i]
              /\ task[i].ret = OwnOutcome(task[i])
        /\ \A u \in UrlSet :
              /\ u \in DOMAIN results
              /\ \E i \in Futures : task[i].url = u /\ results[u] = task[i].ret

C11_Witness ==
    /\ BatchReturned
    /\ urls = <<UrlB, UrlC>>
    /\ results[UrlB] = None
    /\ results[UrlC] # None

\* C12: during batch_extract at most max_workers (5 when not given)
\* extract_content executions are in progress at any moment; a URL is
\* taken from the queue, oldest first, only by a thread that is in no
\* call, so a thread finishes one URL's chain before it takes another.
C12_PoolBound ==
    bpc = "running" =>
        /\ max_workers \in PoolWidths
        /\ Cardinality(Running) <= max_workers
        /\ \A i, j \in Frames :
              (i < j /\ task[i].pc = "pending") => task[j].pc \in {"none", "pending"}

C12_Witness ==
    /\ bpc = "running"
    /\ max_workers = 1
    /\ Len(urls) = 2
    /\ task[1].pc = "fallback"
    /\ task[2].pc = "pending"

\* the steps a pool thread can take in frame i
WorkerStep(i) ==
    WorkerStart(i) \/ Load(i) \/ Store(i) \/ Jina(i) \/ Direct(i) \/ Fallback(i)

\* C13: a batch over a finite list returns when every request ends: a
\* task makes at most one request per tier, three at most, and a task that
\* has started can always take its next step, whatever the other tasks do;
\* so a batch that was called eventually returns.
C13_BatchReturns ==
    /\ [](\A i \in Frames :
            /\ Len(task[i].attempts) <= 3
            /\ \A m, n \in 1..Len(task[i].attempts) :
                  m # n => task[i].attempts[m].tier # task[i].attempts[n].tier
            /\ i \in Running => ENABLED WorkerStep(i))
    /\ (bpc = "running") ~> (bpc = "returned")

C13_Witness ==
    /\ BatchReturned
    /\ jina_api_key
    /\ Len(urls) = 2
    /\ Len(task[1].attempts) = 3
    /\ task[1].ret = None
    /\ task[2].ret # None

\* ------------------------------------------------ claims on the validator

\* the points each of the five tests of validate_content(c, u) adds to
\* score: none when the content is falsy, for then no test is run
Awarded(c, u) ==
    IF Falsy(c)
    THEN [length |-> 0, words |-> 0, data |-> 0, trust |-> 0, relevance |-> 0]
    ELSE [length |-> LengthScore(c), words |-> WordScore(c),
          data |-> DataScore(c), trust |-> TrustScore(u),
          relevance |-> RelevanceScore(c)]

\* C15: for every content and URL, quality_score is the sum of the five
\* sub-scores, each within its cap (length 25, word density 25, structured
\* data 20, source trust 15, relevance 15), and so lies in 0..100.
C15_ScoreIsCappedSum ==
    report # NotCalled =>
        LET a == Awarded(vcontent, vurl)
        IN  /\ report.state = "returned"
            /\ report.value.quality_score
                 = a.length + a.words + a.data + a.trust + a.relevance
            /\ a.length \in 0..25
            /\ a.words \in 0..25
            /\ a.data \in 0..20
            /\ a.trust \in 0..15
            /\ a.relevance \in 0..15
            /\ report.value.quality_score \in 0..100

C15_Witness ==
    /\ report # NotCalled
    /\ ~Falsy(vcontent)
    /\ report.value.quality_score = 100
    /\ Awarded(vcontent, vurl).trust = 15

LevelRank(level) ==
    CASE level = "invalid" -> 0
      [] level = "poor" -> 1
      [] level = "fair" -> 2
      [] level = "good" -> 3
      [] level = "excellent" -> 4

\* C16: for non-empty content quality_level is a total, monotone function
\* of quality_score (>= 90 excellent, >= 70 good, >= 50 fair, otherwise
\* poor); the level is 'invalid' exactly when the content is empty, and
\* then valid is false and the score is 0.
C16_LevelFromScore ==
    report # NotCalled =>
        LET r == report.value
        IN  /\ r.quality_level = "invalid" <=> Falsy(vcontent)
            /\ r.quality_level = "invalid" => ~r.valid /\ r.quality_score = 0
            /\ ~Falsy(vcontent) =>
                  /\ r.quality_level =
                        IF r.quality_score >= 90 THEN "excellent"
                        ELSE IF r.quality_score >= 70 THEN "good"
                        ELSE IF r.quality_score >= 50 THEN "fair"
                        ELSE "poor"
                  /\ \A lower \in 0..r.quality_score :
                        LevelRank(QualityLevel(lower)) <= LevelRank(r.quality_level)

\* a string of whitespace only is not empty: it is scored, and is poor
C16_Witness ==
    /\ report # NotCalled
    /\ ~vcontent.none
    /\ LenOf(vcontent) = 1
    /\ WordCount(vcontent) = 0
    /\ report.value.quality_level = "poor"

\* C17: valid is true exactly when the content has at least 100 characters
\* and quality_score is at least 30, whatever the quality_level.
C17_ValidFromLengthAndScore ==
    report # NotCalled =>
        (report.value.valid <=>
            (LenOf(vcontent) >= 100 /\ report.value.quality_score >= 30))

C17_Witness ==
    /\ report # NotCalled
    /\ report.value.valid
    /\ report.value.quality_level = "poor"
    /\ LenOf(vcontent) = 100

\* C18: validate_content never raises and, for every input, empty content
\* included, returns a report with every field of the data model: url,
\* valid, score, level, issues, strengths, content length and word count.
C18_ReportHasEveryField ==
    report # NotCalled =>
        /\ report.state = "returned"
        /\ { "url", "valid", "quality_score", "quality_level", "issues",
             "strengths", "content_length", "word_count" }
             \subseteq DOMAIN report.value

RECURSIVE SumCounts(_, _)
SumCounts(f, S) ==
    IF S = {} THEN 0
    ELSE LET l == CHOOSE x \in S : TRUE
         IN  f[l] + SumCounts(f, S \ {l})

\* C19: get_validation_summary returns a summary for any mapping of
\* reports, the empty one and those with empty-content reports included,
\* without raising: total_validated is the number of reports,
\* valid_content + invalid_content is total_validated, the counts of
\* quality_distribution sum to total_validated, and the rate and the
\* average are 0 for the empty mapping.
C19_SummaryForAnyMapping ==
    summary # NotCalled =>
        /\ summary.state = "returned"
        /\ LET sm == summary.value
               total == Cardinality(DOMAIN validations.value)
           IN  /\ sm.total_validated = total
               /\ sm.valid_content + sm.invalid_content = total
               /\ SumCounts(sm.quality_distribution,
                            DOMAIN sm.quality_distribution) = total
               /\ total = 0 =>
                     /\ sm.success_rate.num = 0
                     /\ sm.average_quality_score_x100 = 0

\* Scenario B: content of 2500 characters (MaxContentLen) with 5
\* percentages, whose only relevance keyword is "mercado", 4 times
\* (MaxOccurrences), from https://ibge.gov.br, has been validated
ScenarioB ==
    /\ report # NotCalled
    /\ ~vcontent.none
    /\ LenOf(vcontent) = MaxContentLen
    /\ data_matches(vcontent) = 5
    /\ vcontent.kw = KeywordUse(1, MaxOccurrences)
    /\ vurl = ValUrl("https", <<"ibge", "gov", "br">>)

\* C20 as stated: in Scenario B the score is at least 25 (length) + the
\* density sub-score + 10 (data) + 15 (trust) + 8 (relevance), and the
\* level is at least good.
C20_ScenarioBAsStated ==
    ScenarioB =>
        /\ report.value.quality_score
              >= 25 + WordScore(vcontent) + 10 + 15 + 8
        /\ report.value.quality_level \in {"good", "excellent"}

\* C20: in Scenario B the score is 25 (length) + the density sub-score + 15
\* (data: 5 matches) + 15 (trust) + 0 (relevance: one keyword of the list
\* occurs, however often), and the level is good with 75 words or more and
\* fair with fewer.
C20_ScenarioB ==
    ScenarioB =>
        /\ report.value.quality_score = 25 + WordScore(vcontent) + 15 + 15 + 0
        /\ report.value.quality_level =
              IF WordCount(vcontent) >= 75 THEN "good" ELSE "fair"
        /\ "Baixa relevância temática" \in
              {report.value.issues[i] : i \in DOMAIN report.value.issues}

C20_Witness ==
    /\ ScenarioB
    /\ WordCount(vcontent) = 74
    /\ report.value.quality_score = 55
    /\ report.value.quality_level = "fair"

\* the class of the URL's source: what the tests of lines 108-121 tell apart
Untrusted(u) ==
    /\ ~IsTrusted(Netloc(u))
    /\ ~IsNews(Netloc(u))
    /\ ~EndsWithComBr(Netloc(u))

\* content of exactly 100 characters with no structured data and no
\* keyword, from an untrusted domain, has been validated
LengthBoundary ==
    /\ report # NotCalled
    /\ ~vcontent.none
    /\ LenOf(vcontent) = 100
    /\ data_matches(vcontent) = 0
    /\ relevance_matches(vcontent) = 0
    /\ Untrusted(vurl)

\* the threshold table: each sub-score from its factor, lower bounds included
C21_Table ==
    (report # NotCalled /\ ~Falsy(vcontent)) =>
        LET a == Awarded(vcontent, vurl)
            len == LenOf(vcontent)
            words == WordCount(vcontent)
            data == data_matches(vcontent)
            hits == relevance_matches(vcontent)
        IN  /\ a.length = IF len >= 2000 THEN 25 ELSE IF len >= 1000 THEN 20
                          ELSE IF len >= 500 THEN 15 ELSE IF len >= 100 THEN 10
                          ELSE 0
            /\ a.words = IF words >= 300 THEN 25 ELSE IF words >= 150 THEN 20
                         ELSE IF words >= 75 THEN 15 ELSE 0
            /\ a.data = IF data >= 10 THEN 20 ELSE IF data >= 5 THEN 15
                        ELSE IF data >= 2 THEN 10 ELSE 0
            /\ a.trust \in {15, 12, 8, 5}
            /\ Untrusted(vurl) <=> a.trust = 5
            /\ a.relevance = IF hits >= 8 THEN 15 ELSE IF hits >= 5 THEN 12
                             ELSE IF hits >= 3 THEN 8 ELSE 0
            /\ report.value.quality_score
                 = a.length + a.words + a.data + a.trust + a.relevance

Grown(k) == stats[k] - statsAtCall[k]

\* the per-strategy counter of a tier
StrategyCounter(tier) ==
    CASE tier = "jina" -> "jina_successes"
      [] tier = "direct" -> "direct_successes"
      [] tier = "fallback" -> "fallback_successes"

\* C22: in sequential use, after every completed extract_content call the
\* per-strategy counters add up to successful_extractions; a success grows
\* exactly one of them, that of the winning tier, by one; a failure grows
\* none; and jina_successes stays 0 while no JINA_API_KEY is configured.
C22_StrategyCountersPartition ==
    /\ Idle =>
          stats.jina_successes + stats.direct_successes + stats.fallback_successes
              = Succeeded
    /\ (Returned /\ Frame.ret # None) =>
          /\ Frame.attempts # <<>>
          /\ Frame.attempts[Len(Frame.attempts)].hit
          /\ Grown("successful_extractions") = 1
          /\ \A tier \in {"jina", "direct", "fallback"} :
                Grown(StrategyCounter(tier))
                    = IF tier = Frame.attempts[Len(Frame.attempts)].tier
                      THEN 1 ELSE 0
    /\ (Returned /\ Frame.ret = None) =>
          /\ Grown("successful_extractions") = 0
          /\ \A tier \in {"jina", "direct", "fallback"} :
                Grown(StrategyCounter(tier)) = 0
    /\ ~jina_api_key => stats.jina_successes = 0

C22_Witness ==
    /\ Returned
    /\ jina_api_key
    /\ Frame.ret # None
    /\ Frame.strategy = "fallback"
    /\ stats.jina_successes = 1
    /\ stats.fallback_successes = 1
    /\ Failed = 1

\* --------------------------------------------- claims on valid and level

\* C23: valid and quality_level are not independent: content of fewer than
\* 100 characters has at most 50 words, earns 0 for length and 0 for word
\* density, scores at most 50 and is never valid; so every report of level
\* good or excellent is valid, while a valid report can be of level poor,
\* with a score from 30 to 49.
C23_ValidAndLevel ==
    report # NotCalled =>
        LET r == report.value
            a == Awarded(vcontent, vurl)
        IN  /\ LenOf(vcontent) < 100 =>
                  /\ WordCount(vcontent) <= 50
                  /\ a.length = 0
                  /\ a.words = 0
                  /\ r.quality_score <= 50
                  /\ ~r.valid
            /\ r.quality_level \in {"good", "excellent"} => r.valid
            /\ (r.valid /\ r.quality_level = "poor") =>
                  r.quality_score \in 30..49

\* a valid report of level poor
C23_Witness ==
    /\ report # NotCalled
    /\ report.value.valid
    /\ report.value.quality_level = "poor"
    /\ report.value.quality_score \in 30..49
    /\ Awarded(vcontent, vurl).words = 0

====
